---- MODULE Spec2Model ----
(***************************************************************************)
(* media_uploader: a model of DriveUploader (drive/uploader.py) and        *)
(* YoutubeUploader (youtube/uploader.py, youtube/enums.py).                *)
(*                                                                         *)
(* The remote Drive is a sequence of nodes; a node's id is its index.      *)
(* None (Python's None, "no parent given") is 0.  Names and paths are      *)
(* sequences of one-character strings, so that str.split("/") is computed  *)
(* and not assumed.                                                        *)
(***************************************************************************)
EXTENDS Naturals, Sequences, FiniteSets

VARIABLES
    drive,           \* the remote tree: drive[id] = [name, mimeType, parent]
    log,             \* every request the remote service received, in order
    entry,           \* the DriveUploader method the callers invoke
    folder_path,     \* argument folder_path / dst_path
    parent_id,       \* argument parent_id of find_or_create_folder
    src,             \* the local source: src_path and what is below it
    pc,              \* pc[c]: where caller c is in the method
    idx,             \* idx[c]: position of the for loop over folders
    current_parent,  \* current_parent[c]
    drive_folder_id, \* drive_folder_id[c] of upload
    stack,           \* stack[c]: the active upload_folder calls, innermost last
    result,          \* result[c]: the value returned
    err,             \* err[c]: the exception that left the method
    assigned,        \* assigned[u]: the attributes of uploader u that are set
    local_server_port, \* local_server_port[u]: the constructor argument
    secrets_ok,      \* secrets_ok[u]: client_secrets_file can be loaded
    token_file,      \* token_file[u]: <<>> (no file) or <<the credential in it>>
    token_at_start,  \* token_file[u] as it was before the acquisition
    creds,           \* creds[u]: the local variable, <<>> for None
    apc,             \* apc[u]: where the acquisition of uploader u is
    aerr,            \* aerr[u]: the exception that left the acquisition
    events,          \* events[u]: refresh calls, flows and file writes, in order
    service,         \* service[u]: the API handle built, <<>> for None
    video_pc,        \* where the upload_video call is
    video_args,      \* the arguments of upload_video; <<>> is an omitted one
    body,            \* the body of the videos().insert request
    response         \* what upload_video returned

driveVars == <<drive, log, entry, folder_path, parent_id, src, pc, idx,
               current_parent, drive_folder_id, stack, result, err>>

credVars == <<assigned, local_server_port, secrets_ok, token_file,
              token_at_start, creds, apc, aerr, events, service>>

videoVars == <<video_pc, video_args, body, response>>

vars == <<driveVars, credVars, videoVars>>

----------------------------------------------------------------------------
(* Bounds *)

MaxSegs == 2          \* segments in a destination path
MaxInitFolders == 1   \* folders in the remote tree before the first call
MaxLocal == 3         \* entries below a local source directory

Callers == {"c1", "c2"}
Names == {<<"a">>, <<"b">>}
LocalNames == {<<"a">>, <<"x">>}
None == 0
FOLDER == "application/vnd.google-apps.folder"
FILE == "application/octet-stream"

----------------------------------------------------------------------------
(* Strings *)

RECURSIVE Join(_)
Join(segs) ==
    IF Len(segs) = 1 THEN segs[1]
    ELSE segs[1] \o <<"/">> \o Join(Tail(segs))

\* str.split("/"): always at least one piece; pieces may be empty
RECURSIVE SplitFrom(_, _, _)
SplitFrom(s, i, piece) ==
    IF i > Len(s) THEN <<piece>>
    ELSE IF s[i] = "/" THEN <<piece>> \o SplitFrom(s, i + 1, <<>>)
    ELSE SplitFrom(s, i + 1, Append(piece, s[i]))

Split(s) == SplitFrom(s, 1, <<>>)

SeqsUpTo(S, n) == UNION {[1..k -> S] : k \in 1..n}

PathsOver(S, n) == {Join(segs) : segs \in SeqsUpTo(S, n)}

----------------------------------------------------------------------------
(* The remote service *)

Node(name, mime, parent) == [name |-> name, mimeType |-> mime, parent |-> parent]

\* the ids of the nodes of tree t that query q selects; a query built without
\* an "in parents" term (q.parent = None) selects at every depth
Select(t, q) ==
    {i \in DOMAIN t :
        /\ t[i].name = q.name
        /\ t[i].mimeType = q.mimeType
        /\ (q.parent # None => t[i].parent = q.parent)}

\* files().list(q=...).execute()
ListFiles(q) == Select(drive, q)

\* files().create(body=...): the tree with the new node; its id is the new length
Created(metadata) == Append(drive, metadata)

Request(c, op, by, ok) == [caller |-> c, op |-> op, by |-> by, ok |-> ok]

\* remote trees of at most n folders, each under the root or an earlier folder
RECURSIVE TreesOf(_, _)
TreesOf(S, n) ==
    IF n = 0 THEN {<<>>}
    ELSE LET smaller == TreesOf(S, n - 1)
         IN  smaller \cup
             {Append(t, Node(nm, FOLDER, p)) :
                 t \in {u \in smaller : Len(u) = n - 1},
                 nm \in S, p \in 0..(n - 1)}

----------------------------------------------------------------------------
(* DriveUploader.find_or_create_folder *)

folders == Split(folder_path)


\* faulty variant: the query names the whole folder_path, not the segment
QueryWholePath(folder, parent) ==
    [name |-> folder_path, mimeType |-> FOLDER, parent |-> parent]

\* the query of one loop iteration
Query(folder, parent) == [name |-> folder, mimeType |-> FOLDER, parent |-> parent]

\* the metadata of the folder one loop iteration creates
FolderMetadata(folder, parent) == Node(folder, FOLDER, parent)


\* faulty variant: the error is caught and recorded, and the method goes on
Swallow(c, e) ==
    /\ err' = [err EXCEPT ![c] = e]
    /\ UNCHANGED <<pc, stack>>

Raise(c, e) ==
    /\ pc' = [pc EXCEPT ![c] = "raised"]
    /\ err' = [err EXCEPT ![c] = e]
    /\ stack' = [stack EXCEPT ![c] = <<>>]

\* the loop body has set current_parent to id: next iteration, or leave the loop
Advance(c, id) ==
    /\ current_parent' = [current_parent EXCEPT ![c] = id]
    /\ idx' = [idx EXCEPT ![c] = @ + 1]
    /\ IF idx[c] < Len(folders)
       THEN /\ pc' = [pc EXCEPT ![c] = "lookup"]
            /\ UNCHANGED <<result, drive_folder_id>>
       ELSE IF entry = "find_or_create_folder"
       THEN /\ pc' = [pc EXCEPT ![c] = "done"]
            /\ result' = [result EXCEPT ![c] = id]
            /\ UNCHANGED drive_folder_id
       ELSE /\ pc' = [pc EXCEPT ![c] = "dispatch"]
            /\ drive_folder_id' = [drive_folder_id EXCEPT ![c] = id]
            /\ UNCHANGED result

\* lines 73-85, 100-102: the list request, and items[0] when there is one
Lookup(c, ok) ==
    /\ pc[c] = "lookup"
    /\ log' = Append(log, Request(c, "list", "find_or_create_folder", ok))
    /\ UNCHANGED <<drive, entry, folder_path, parent_id, src>>
    /\ IF ~ok
       THEN /\ Raise(c, "HttpError")
            /\ UNCHANGED <<idx, current_parent, drive_folder_id, result>>
       ELSE LET items == ListFiles(Query(folders[idx[c]], current_parent[c]))
            IN  IF items = {}
                THEN /\ pc' = [pc EXCEPT ![c] = "create"]
                     /\ UNCHANGED <<idx, current_parent, drive_folder_id,
                                    result, err, stack>>
                ELSE /\ \E first \in items : Advance(c, first)
                     /\ UNCHANGED <<err, stack>>

\* lines 86-99: the create request of a folder that was not found
CreateFolder(c, ok) ==
    /\ pc[c] = "create"
    /\ log' = Append(log, Request(c, "create_folder", "find_or_create_folder", ok))
    /\ UNCHANGED <<entry, folder_path, parent_id, src>>
    /\ IF ~ok
       THEN /\ Raise(c, "HttpError")
            /\ UNCHANGED <<drive, idx, current_parent, drive_folder_id, result>>
       ELSE /\ drive' = Created(FolderMetadata(folders[idx[c]], current_parent[c]))
            /\ Advance(c, Len(drive) + 1)
            /\ UNCHANGED <<err, stack>>

----------------------------------------------------------------------------
(* Concurrent and successive calls of find_or_create_folder *)

FolderIds(t) == {i \in DOMAIN t : t[i].mimeType = FOLDER}

InitCallers(first) ==
    /\ pc = [c \in Callers |-> first]
    /\ idx = [c \in Callers |-> 1]
    /\ current_parent = [c \in Callers |-> parent_id]
    /\ drive_folder_id = [c \in Callers |-> None]
    /\ stack = [c \in Callers |-> <<>>]
    /\ result = [c \in Callers |-> None]
    /\ err = [c \in Callers |-> "none"]
    /\ log = <<>>

NoSource == [kind |-> "none", name |-> <<>>, entries |-> <<>>]

----------------------------------------------------------------------------
(* YoutubeUploader.upload_video and the enumerations of youtube/enums.py *)

YoutubeCategory ==
    [FILM_ANIMATION |-> "1", AUTOS_VEHICLES |-> "2", MUSIC |-> "10",
     PETS_ANIMALS |-> "15", SPORTS |-> "17", SHORT_MOVIES |-> "18",
     TRAVEL_EVENTS |-> "19", GAMING |-> "20", VIDEOBLOGGING |-> "21",
     PEOPLE_BLOGS |-> "22", COMEDY |-> "23", ENTERTAINMENT |-> "24",
     NEWS_POLITICS |-> "25", HOWTO_STYLE |-> "26", EDUCATION |-> "27",
     SCIENCE_TECHNOLOGY |-> "28", NONPROFITS_ACTIVISM |-> "29"]

YoutubePrivacyStatus ==
    [PUBLIC |-> "public", PRIVATE |-> "private", UNLISTED |-> "unlisted"]

YoutubeLicense == [YOUTUBE |-> "youtube", CREATIVE_COMMON |-> "creativeCommon"]

\* an argument that may be left out: <<>> when it is, <<v>> when v is passed
Optional(S) == {<<>>} \cup {<<v>> : v \in S}

\* the value of a parameter: its default when the argument is left out
Param(arg, default) == IF arg = <<>> THEN default ELSE arg[1]

\* Python's "x or y" on a list: y when x is None or empty
Or(x, y) == IF x = <<>> THEN y ELSE IF x[1] = <<>> THEN y ELSE x[1]

VideoArgs ==
    [file_path : {"video.mp4"}, title : {"title"}, description : {"text"},
     category : DOMAIN YoutubeCategory,
     privacy_status : DOMAIN YoutubePrivacyStatus,
     tags : Optional({<<>>, <<"tag">>}),
     default_language : {<<>>},
     embeddable : Optional(BOOLEAN),
     license : Optional(DOMAIN YoutubeLicense),
     public_stats_viewable : Optional(BOOLEAN),
     publish_at : {<<>>},
     recording_date : {<<>>},
     made_for_kids : Optional(BOOLEAN)]


\* faulty variant: the members' names are sent, not their values
BodyOfNames(a) ==
    [snippet |->
        [title |-> a.title,
         description |-> a.description,
         categoryId |-> a.category,
         tags |-> Or(a.tags, <<>>),
         defaultLanguage |-> a.default_language],
     status |->
        [privacyStatus |-> a.privacy_status,
         embeddable |-> Param(a.embeddable, TRUE),
         license |-> Param(a.license, "YOUTUBE"),
         publicStatsViewable |-> Param(a.public_stats_viewable, TRUE),
         publishAt |-> a.publish_at,
         recordingDate |-> a.recording_date,
         selfDeclaredMadeForKids |-> Param(a.made_for_kids, FALSE)]]

\* the body upload_video assembles; an optional string left out is None, <<>>
Body(a) ==
    [snippet |->
        [title |-> a.title,
         description |-> a.description,
         categoryId |-> YoutubeCategory[a.category],
         tags |-> Or(a.tags, <<>>),
         defaultLanguage |-> a.default_language],
     status |->
        [privacyStatus |-> YoutubePrivacyStatus[a.privacy_status],
         embeddable |-> Param(a.embeddable, TRUE),
         license |-> YoutubeLicense[Param(a.license, "YOUTUBE")],
         publicStatsViewable |-> Param(a.public_stats_viewable, TRUE),
         publishAt |-> a.publish_at,
         recordingDate |-> a.recording_date,
         selfDeclaredMadeForKids |-> Param(a.made_for_kids, FALSE)]]

NoArgs ==
    [file_path |-> "", title |-> "", description |-> "",
     category |-> "FILM_ANIMATION", privacy_status |-> "PUBLIC", tags |-> <<>>,
     default_language |-> <<>>, embeddable |-> <<>>, license |-> <<>>,
     public_stats_viewable |-> <<>>, publish_at |-> <<>>,
     recording_date |-> <<>>, made_for_kids |-> <<>>]

\* upload_video up to videos().insert(part="snippet,status", body=body, ...)
InsertVideo(a) ==
    /\ video_pc = "idle"
    /\ video_args' = a
    /\ IF service["youtube"] = <<>>
       THEN /\ video_pc' = "raised"
            /\ UNCHANGED <<body, response>>
       ELSE /\ body' = <<Body(a)>>
            /\ video_pc' = "inserting"
            /\ UNCHANGED response

\* request.execute(): the service answers with the record of the new video
ExecuteInsert(ok) ==
    /\ video_pc = "inserting"
    /\ video_pc' = IF ok THEN "done" ELSE "raised"
    /\ response' = IF ok THEN <<"id">> ELSE <<>>
    /\ UNCHANGED <<video_args, body>>

VideoIdle ==
    /\ video_pc = "idle"
    /\ video_args = NoArgs
    /\ body = <<>>
    /\ response = <<>>

----------------------------------------------------------------------------
(* Credentials: DriveUploader.get_credentials, YoutubeUploader.authenticate *)

Uploaders == {"drive", "youtube"}

DefaultPort == 8081

Ports == {DefaultPort, 8082}

\* the ports the operating system may hand out when asked for port 0
OsPorts == Ports \cup {49152}

Attributes == {"client_secrets_file", "token_file_path", "local_server_port",
               "scopes"}

\* a credential as google.oauth2 sees it: an access token or none, past its
\* expiry or not, and a refresh token that is missing, good or revoked
Credentials ==
    [token : BOOLEAN, expired : BOOLEAN, refresh_token : {"none", "good", "revoked"}]

\* Credentials.valid
Valid(cr) == cr.token /\ ~cr.expired


\* faulty variant: the refresh branch asks for a valid credential
CanRefreshIfValid(cr) ==
    IF cr = <<>> THEN FALSE ELSE Valid(cr[1]) /\ cr[1].refresh_token # "none"

\* the condition of the refresh branch
CanRefresh(cr) ==
    IF cr = <<>> THEN FALSE ELSE cr[1].expired /\ cr[1].refresh_token # "none"

\* the condition of the outer if: no credential, or one that is not valid
NeedsNew(cr) == IF cr = <<>> THEN TRUE ELSE ~Valid(cr[1])

\* the port argument of run_local_server
FlowPort(u) == IF u = "drive" THEN 0 ELSE local_server_port[u]

\* the port the callback listener is bound to
ListenerPorts(port) == IF port = 0 THEN OsPorts ELSE {port}

Event(op, arg) == [op |-> op, arg |-> arg]


\* faulty variant: the error is caught and the acquisition goes on to save the credential
ContinueAfter(u, e) ==
    /\ apc' = [apc EXCEPT ![u] = "save"]
    /\ aerr' = [aerr EXCEPT ![u] = e]

\* an exception leaves the acquisition
RaiseAuth(u, e) ==
    /\ apc' = [apc EXCEPT ![u] = "raised"]
    /\ aerr' = [aerr EXCEPT ![u] = e]

\* self.<attribute> with the attribute not assigned yet
Missing(u, attrs) == attrs \ assigned[u] # {}

\* the token file is looked for and, when it exists, loaded
LoadToken(u) ==
    /\ apc[u] = "start"
    /\ UNCHANGED <<assigned, local_server_port, secrets_ok, token_file,
                   token_at_start, events, service>>
    /\ IF Missing(u, IF token_file[u] = <<>> THEN {"token_file_path"}
                                             ELSE {"token_file_path", "scopes"})
       THEN RaiseAuth(u, "AttributeError") /\ UNCHANGED creds
       ELSE /\ creds' = [creds EXCEPT ![u] = token_file[u]]
            /\ apc' = [apc EXCEPT ![u] = "loaded"]
            /\ UNCHANGED aerr

\* a valid credential is used as it is: nothing is refreshed or written
UseLoaded(u) ==
    /\ apc[u] = "loaded"
    /\ ~NeedsNew(creds[u])
    /\ apc' = [apc EXCEPT ![u] = "build"]
    /\ UNCHANGED <<assigned, local_server_port, secrets_ok, token_file,
                   token_at_start, creds, aerr, events, service>>

\* creds.refresh(Request())
Refresh(u) ==
    /\ apc[u] = "loaded"
    /\ NeedsNew(creds[u])
    /\ CanRefresh(creds[u])
    /\ UNCHANGED <<assigned, local_server_port, secrets_ok, token_file,
                   token_at_start, service>>
    /\ IF creds[u][1].refresh_token = "good"
       THEN /\ events' = [events EXCEPT ![u] = Append(@, Event("refresh", 1))]
            /\ creds' = [creds EXCEPT ![u] =
                             <<[@[1] EXCEPT !.token = TRUE, !.expired = FALSE]>>]
            /\ apc' = [apc EXCEPT ![u] = "save"]
            /\ UNCHANGED aerr
       ELSE /\ events' = [events EXCEPT ![u] = Append(@, Event("refresh", 0))]
            /\ RaiseAuth(u, "RefreshError")
            /\ UNCHANGED creds

\* InstalledAppFlow.from_client_secrets_file, then flow.run_local_server:
\* the callback listener is bound
StartFlow(u) ==
    /\ apc[u] = "loaded"
    /\ NeedsNew(creds[u])
    /\ ~CanRefresh(creds[u])
    /\ UNCHANGED <<assigned, local_server_port, secrets_ok, token_file,
                   token_at_start, creds, service>>
    /\ IF Missing(u, IF u = "drive" THEN {"client_secrets_file", "scopes"}
                     ELSE {"client_secrets_file", "scopes", "local_server_port"})
       THEN RaiseAuth(u, "AttributeError") /\ UNCHANGED events
       ELSE IF ~secrets_ok[u]
       THEN RaiseAuth(u, "FileNotFoundError") /\ UNCHANGED events
       ELSE /\ \E p \in ListenerPorts(FlowPort(u)) :
                   events' = [events EXCEPT ![u] = Append(@, Event("flow", p))]
            /\ apc' = [apc EXCEPT ![u] = "consent"]
            /\ UNCHANGED aerr

\* run_local_server returns the credential the user granted, or fails
Consent(u, granted) ==
    /\ apc[u] = "consent"
    /\ UNCHANGED <<assigned, local_server_port, secrets_ok, token_file,
                   token_at_start, events, service>>
    /\ IF granted
       THEN /\ creds' = [creds EXCEPT ![u] =
                   <<[token |-> TRUE, expired |-> FALSE, refresh_token |-> "good"]>>]
            /\ apc' = [apc EXCEPT ![u] = "save"]
            /\ UNCHANGED aerr
       ELSE RaiseAuth(u, "AccessDeniedError") /\ UNCHANGED creds

\* the credential is written to the token file, over what was there
SaveToken(u) ==
    /\ apc[u] = "save"
    /\ token_file' = [token_file EXCEPT ![u] = creds[u]]
    /\ events' = [events EXCEPT ![u] = Append(@, Event("write", 0))]
    /\ apc' = [apc EXCEPT ![u] = "build"]
    /\ UNCHANGED <<assigned, local_server_port, secrets_ok, token_at_start,
                   creds, aerr, service>>

\* build(..., credentials=creds)
Build(u) ==
    /\ apc[u] = "build"
    /\ service' = [service EXCEPT ![u] = creds[u]]
    /\ apc' = [apc EXCEPT ![u] = "ready"]
    /\ UNCHANGED <<assigned, local_server_port, secrets_ok, token_file,
                   token_at_start, creds, aerr, events>>

\* both uploaders hold a service handle; nothing more happens to credentials
CredsReady ==
    /\ assigned = [u \in Uploaders |-> Attributes]
    /\ local_server_port = [u \in Uploaders |-> DefaultPort]
    /\ secrets_ok = [u \in Uploaders |-> TRUE]
    /\ token_file = [u \in Uploaders |->
                        <<[token |-> TRUE, expired |-> FALSE, refresh_token |-> "good"]>>]
    /\ token_at_start = token_file
    /\ creds = token_file
    /\ apc = [u \in Uploaders |-> "ready"]
    /\ aerr = [u \in Uploaders |-> "none"]
    /\ events = [u \in Uploaders |-> <<>>]
    /\ service = token_file

DriveIdle ==
    /\ entry = "none"
    /\ drive = <<>>
    /\ folder_path = <<"a">>
    /\ parent_id = None
    /\ src = NoSource
    /\ InitCallers("idle")

\* each uploader, every attribute assigned, is about to acquire its credential
InitCreds ==
    /\ DriveIdle
    /\ VideoIdle
    /\ assigned = [u \in Uploaders |-> Attributes]
    /\ local_server_port \in [Uploaders -> Ports]
    /\ secrets_ok \in [Uploaders -> BOOLEAN]
    /\ token_file \in [Uploaders -> {<<>>} \cup {<<cr>> : cr \in Credentials}]
    /\ token_at_start = token_file
    /\ creds = [u \in Uploaders |-> <<>>]
    /\ apc = [u \in Uploaders |-> "start"]
    /\ aerr = [u \in Uploaders |-> "none"]
    /\ events = [u \in Uploaders |-> <<>>]
    /\ service = [u \in Uploaders |-> <<>>]

NextCreds ==
    \E u \in Uploaders :
        \/ LoadToken(u) /\ UNCHANGED <<driveVars, videoVars>>
        \/ UseLoaded(u) /\ UNCHANGED <<driveVars, videoVars>>
        \/ Refresh(u) /\ UNCHANGED <<driveVars, videoVars>>
        \/ StartFlow(u) /\ UNCHANGED <<driveVars, videoVars>>
        \/ (\E granted \in BOOLEAN : Consent(u, granted)) /\ UNCHANGED <<driveVars, videoVars>>
        \/ SaveToken(u) /\ UNCHANGED <<driveVars, videoVars>>
        \/ Build(u) /\ UNCHANGED <<driveVars, videoVars>>

SpecCreds == InitCreds /\ [][NextCreds]_vars

----------------------------------------------------------------------------
(* Construction: DriveUploader.__init__, YoutubeUploader.__init__ *)

\* the attributes __init__ assigns before it goes on to anything else:
\* DriveUploader assigns two and then calls get_drive_service,
\* YoutubeUploader assigns all four
AssignedFirst(u) ==
    IF u = "drive" THEN {"token_file_path", "client_secrets_file"} ELSE Attributes

\* the attributes the acquisition reads from self
ReadByAcquisition(u) ==
    IF u = "drive" THEN {"token_file_path", "client_secrets_file", "scopes"}
    ELSE Attributes

\* the assignment statements of __init__, in source order.  DriveUploader:
\* the first two, then the call of get_drive_service; after that call has
\* returned, the last two.  YoutubeUploader: all of them and youtube = None.
Construct(u) ==
    /\ apc[u] \in {"new", "ready"}
    /\ UNCHANGED <<local_server_port, secrets_ok, token_file, token_at_start,
                   creds, aerr, events, service>>
    /\ IF apc[u] = "new"
       THEN /\ assigned' = [assigned EXCEPT ![u] = AssignedFirst(u)]
            /\ apc' = [apc EXCEPT ![u] = IF u = "drive" THEN "start"
                                                        ELSE "constructed"]
       ELSE /\ u = "drive"
            /\ assigned' = [assigned EXCEPT ![u] = Attributes]
            /\ apc' = [apc EXCEPT ![u] = "constructed"]

\* uploader.authenticate(), called on the constructed YoutubeUploader
Authenticate(u) ==
    /\ u = "youtube"
    /\ apc[u] = "constructed"
    /\ service[u] = <<>>
    /\ apc' = [apc EXCEPT ![u] = "start"]
    /\ UNCHANGED <<assigned, local_server_port, secrets_ok, token_file,
                   token_at_start, creds, aerr, events, service>>

\* no uploader exists yet; the constructor arguments and the files are chosen
InitConstruct ==
    /\ DriveIdle
    /\ VideoIdle
    /\ assigned = [u \in Uploaders |-> {}]
    /\ local_server_port \in [Uploaders -> Ports]
    /\ secrets_ok \in [Uploaders -> BOOLEAN]
    /\ token_file \in [Uploaders -> {<<>>} \cup {<<cr>> : cr \in Credentials}]
    /\ token_at_start = token_file
    /\ creds = [u \in Uploaders |-> <<>>]
    /\ apc = [u \in Uploaders |-> "new"]
    /\ aerr = [u \in Uploaders |-> "none"]
    /\ events = [u \in Uploaders |-> <<>>]
    /\ service = [u \in Uploaders |-> <<>>]

NextConstruct ==
    \E u \in Uploaders :
        \/ Construct(u) /\ UNCHANGED <<driveVars, videoVars>>
        \/ Authenticate(u) /\ UNCHANGED <<driveVars, videoVars>>
        \/ LoadToken(u) /\ UNCHANGED <<driveVars, videoVars>>
        \/ UseLoaded(u) /\ UNCHANGED <<driveVars, videoVars>>
        \/ Refresh(u) /\ UNCHANGED <<driveVars, videoVars>>
        \/ StartFlow(u) /\ UNCHANGED <<driveVars, videoVars>>
        \/ (\E granted \in BOOLEAN : Consent(u, granted)) /\ UNCHANGED <<driveVars, videoVars>>
        \/ SaveToken(u) /\ UNCHANGED <<driveVars, videoVars>>
        \/ Build(u) /\ UNCHANGED <<driveVars, videoVars>>

SpecConstruct == InitConstruct /\ [][NextConstruct]_vars

----------------------------------------------------------------------------
(* One call of upload_video on an authenticated uploader *)

InitVideo ==
    /\ DriveIdle
    /\ CredsReady
    /\ VideoIdle

NextVideo ==
    \/ /\ video_pc = "idle"
       /\ \E a \in VideoArgs : InsertVideo(a)
       /\ UNCHANGED <<driveVars, credVars>>
    \/ (\E ok \in BOOLEAN : ExecuteInsert(ok)) /\ UNCHANGED <<driveVars, credVars>>

SpecVideo == InitVideo /\ [][NextVideo]_vars

----------------------------------------------------------------------------
(* Calls of find_or_create_folder by two callers *)

InitFolder ==
    /\ CredsReady
    /\ VideoIdle
    /\ entry = "find_or_create_folder"
    /\ drive \in TreesOf(Names, MaxInitFolders)
    /\ folder_path \in PathsOver(Names, MaxSegs)
    /\ parent_id \in {None} \cup FolderIds(drive)
    /\ src = NoSource
    /\ InitCallers("lookup")

NextFolder ==
    \E c \in Callers :
        \/ Lookup(c, TRUE) /\ UNCHANGED <<credVars, videoVars>>
        \/ CreateFolder(c, TRUE) /\ UNCHANGED <<credVars, videoVars>>

SpecFolder == InitFolder /\ [][NextFolder]_vars

----------------------------------------------------------------------------
(* The local file system below src_path *)

Entry(name, kind, parent) == [name |-> name, kind |-> kind, parent |-> parent]

\* a new entry may go into the source directory (0) or an earlier directory,
\* where no entry has its name yet
Fits(t, e) ==
    /\ e.parent = 0 \/ t[e.parent].kind = "dir"
    /\ \A i \in DOMAIN t : t[i].parent = e.parent => t[i].name # e.name

Entries(m) ==
    {Entry(nm, k, p) : nm \in LocalNames, k \in {"file", "dir", "other"}, p \in 0..m}

RECURSIVE LocalTrees(_)
LocalTrees(n) ==
    IF n = 0 THEN {<<>>}
    ELSE LET smaller == LocalTrees(n - 1)
         IN  smaller \cup
             {Append(t, e) : t \in {u \in smaller : Len(u) = n - 1},
                             e \in Entries(n - 1)}

WellFormed(t) == \A i \in DOMAIN t : Fits(SubSeq(t, 1, i - 1), t[i])

Sources ==
    {[kind |-> k, name |-> nm, entries |-> <<>>] :
        k \in {"none", "file"}, nm \in LocalNames}
    \cup {[kind |-> "dir", name |-> <<"x">>, entries |-> t] :
              t \in {u \in LocalTrees(MaxLocal) : WellFormed(u)}}

\* os.listdir(dir): the entries directly in dir (0 is src_path itself)
Listdir(dir) ==
    SelectSeq([i \in DOMAIN src.entries |-> i],
              LAMBDA i : src.entries[i].parent = dir)

----------------------------------------------------------------------------
(* DriveUploader.upload, upload_file, upload_folder *)

Frame(dir, folder, pos) == [dir |-> dir, folder |-> folder, pos |-> pos]


\* faulty variant: returning from a nested upload_folder call ends every enclosing loop
ReturnAll(st) ==
    IF st = <<>> THEN st
    ELSE IF st[Len(st)].pos > Len(Listdir(st[Len(st)].dir)) THEN <<>>
    ELSE st

\* an upload_folder call whose loop is over returns to its caller
RECURSIVE Unwind(_)
Unwind(st) ==
    IF st = <<>> THEN st
    ELSE IF st[Len(st)].pos > Len(Listdir(st[Len(st)].dir)) THEN Unwind(SubSeq(st, 1, Len(st) - 1))
    ELSE st

Top(c) == stack[c][Len(stack[c])]

Item(c) == src.entries[Listdir(Top(c).dir)[Top(c).pos]]

ItemId(c) == Listdir(Top(c).dir)[Top(c).pos]

\* the innermost loop moves to its next item
Stepped(c) == [stack[c] EXCEPT ![Len(stack[c])].pos = @ + 1]

\* upload_folder goes on with stack st; upload returns drive_folder_id when it is over
Continue(c, st) ==
    /\ stack' = [stack EXCEPT ![c] = Unwind(st)]
    /\ IF Unwind(st) = <<>>
       THEN /\ pc' = [pc EXCEPT ![c] = "done"]
            /\ result' = [result EXCEPT ![c] = drive_folder_id[c]]
       ELSE /\ pc' = [pc EXCEPT ![c] = "upload_folder"]
            /\ UNCHANGED result

\* the metadata upload_file sends
FileMetadata(file_name, parent) == Node(file_name, FILE, parent)

\* the metadata upload_folder sends for a subdirectory
NewFolderMetadata(item, parent) == Node(item, FOLDER, parent)

\* lines 164-172: what upload does with src_path once dst_path is resolved
Dispatch(c) ==
    /\ pc[c] = "dispatch"
    /\ UNCHANGED <<drive, log, entry, folder_path, parent_id, src, idx,
                   current_parent, drive_folder_id>>
    /\ IF src.kind = "file"
       THEN /\ pc' = [pc EXCEPT ![c] = "upload_file"]
            /\ UNCHANGED <<stack, result, err>>
       ELSE IF src.kind = "dir"
       THEN /\ Continue(c, <<Frame(0, drive_folder_id[c], 1)>>)
            /\ UNCHANGED err
       ELSE /\ Raise(c, "ValueError")
            /\ UNCHANGED result

\* line 165: upload_file(src_path, drive_folder_id)
UploadFile(c, ok) ==
    /\ pc[c] = "upload_file"
    /\ log' = Append(log, Request(c, "create_file", "upload", ok))
    /\ UNCHANGED <<entry, folder_path, parent_id, src, idx, current_parent,
                   drive_folder_id>>
    /\ IF ~ok
       THEN /\ Raise(c, "HttpError")
            /\ UNCHANGED <<drive, result>>
       ELSE /\ drive' = Created(FileMetadata(src.name, drive_folder_id[c]))
            /\ pc' = [pc EXCEPT ![c] = "done"]
            /\ result' = [result EXCEPT ![c] = drive_folder_id[c]]
            /\ UNCHANGED <<stack, err>>

\* lines 135-136: a regular file in the directory being uploaded
UploadFolderFile(c, ok) ==
    /\ pc[c] = "upload_folder"
    /\ Item(c).kind = "file"
    /\ log' = Append(log, Request(c, "create_file", "upload_folder", ok))
    /\ UNCHANGED <<entry, folder_path, parent_id, src, idx, current_parent,
                   drive_folder_id>>
    /\ IF ~ok
       THEN /\ Raise(c, "HttpError")
            /\ UNCHANGED <<drive, result>>
       ELSE /\ drive' = Created(FileMetadata(Item(c).name, Top(c).folder))
            /\ Continue(c, Stepped(c))
            /\ UNCHANGED err

\* lines 137-151: a subdirectory: a new remote folder, then the recursive call
UploadFolderSubdir(c, ok) ==
    /\ pc[c] = "upload_folder"
    /\ Item(c).kind = "dir"
    /\ log' = Append(log, Request(c, "create_folder", "upload_folder", ok))
    /\ UNCHANGED <<entry, folder_path, parent_id, src, idx, current_parent,
                   drive_folder_id>>
    /\ IF ~ok
       THEN /\ Raise(c, "HttpError")
            /\ UNCHANGED <<drive, result>>
       ELSE /\ drive' = Created(NewFolderMetadata(Item(c).name, Top(c).folder))
            /\ Continue(c, Append(Stepped(c), Frame(ItemId(c), Len(drive) + 1, 1)))
            /\ UNCHANGED err

\* an item that is neither a regular file nor a directory is passed over
UploadFolderSkip(c) ==
    /\ pc[c] = "upload_folder"
    /\ Item(c).kind = "other"
    /\ Continue(c, Stepped(c))
    /\ UNCHANGED <<drive, log, entry, folder_path, parent_id, src, idx,
                   current_parent, drive_folder_id, err>>

----------------------------------------------------------------------------
(* A script that calls upload(src_path, dst_path) twice, one call after the other *)

Ended(c) == pc[c] \in {"done", "raised"}

Turn(c) == c = "c1" \/ Ended("c1")

\* the destinations 'a' and 'a/a', on a Drive that is empty or holds a folder 'a'
DstPaths == {<<"a">>, <<"a", "/", "a">>}

DstTrees == {<<>>, <<Node(<<"a">>, FOLDER, None)>>}

InitUpload ==
    /\ CredsReady
    /\ VideoIdle
    /\ entry = "upload"
    /\ drive \in DstTrees
    /\ folder_path \in DstPaths
    /\ parent_id = None
    /\ src \in Sources
    /\ InitCallers("lookup")

NextUpload ==
    \E c \in Callers :
        \/ Turn(c) /\ UNCHANGED <<credVars, videoVars>> /\ \E ok \in BOOLEAN : Lookup(c, ok)
        \/ Turn(c) /\ UNCHANGED <<credVars, videoVars>> /\ \E ok \in BOOLEAN : CreateFolder(c, ok)
        \/ Turn(c) /\ UNCHANGED <<credVars, videoVars>> /\ Dispatch(c)
        \/ Turn(c) /\ UNCHANGED <<credVars, videoVars>> /\ \E ok \in BOOLEAN : UploadFile(c, ok)
        \/ Turn(c) /\ UNCHANGED <<credVars, videoVars>> /\ \E ok \in BOOLEAN : UploadFolderFile(c, ok)
        \/ Turn(c) /\ UNCHANGED <<credVars, videoVars>> /\ \E ok \in BOOLEAN : UploadFolderSubdir(c, ok)
        \/ Turn(c) /\ UNCHANGED <<credVars, videoVars>> /\ UploadFolderSkip(c)

SpecUpload == InitUpload /\ [][NextUpload]_vars

----------------------------------------------------------------------------
(* What the request log and the tree tell *)

RequestsOf(c, op, by) ==
    {i \in DOMAIN log : log[i].caller = c /\ log[i].op = op /\ log[i].by = by}

RequestsBy(c) == {i \in DOMAIN log : log[i].caller = c}

\* some request of one caller lies between two requests of the other
Overlapped ==
    \E i, j, k \in DOMAIN log :
        /\ i < j /\ j < k
        /\ log[i].caller = log[k].caller
        /\ log[j].caller # log[i].caller

AllDone == \A c \in Callers : pc[c] = "done"

NumCreated ==
    Cardinality({i \in DOMAIN log :
                    log[i].op \in {"create_folder", "create_file"} /\ log[i].ok})

InitialDrive == SubSeq(drive, 1, Len(drive) - NumCreated)

CreatedIds == (Len(InitialDrive) + 1)..Len(drive)

\* the caller whose call came second, when the calls did not overlap
Second == log[Len(log)].caller

\* id is reached from top by parent links whose names are segs, in order
RECURSIVE IsChain(_, _, _)
IsChain(id, segs, top) ==
    IF segs = <<>> THEN id = top
    ELSE /\ id \in DOMAIN drive
         /\ drive[id].mimeType = FOLDER
         /\ drive[id].name = segs[Len(segs)]
         /\ IsChain(drive[id].parent, SubSeq(segs, 1, Len(segs) - 1), top)

\* no folder that the first lookup could find exists before the calls
Fresh == Select(InitialDrive, Query(folders[1], parent_id)) = {}

DistinctSegs ==
    \A i, j \in DOMAIN folders : i # j => folders[i] # folders[j]

\* two folders made by the calls have one name and one parent
Duplicates ==
    \E i, j \in CreatedIds :
        /\ i # j
        /\ drive[i].mimeType = FOLDER /\ drive[j].mimeType = FOLDER
        /\ drive[i].name = drive[j].name
        /\ drive[i].parent = drive[j].parent

----------------------------------------------------------------------------
(* Claims about find_or_create_folder, under SpecFolder *)

\* C1: two calls of find_or_create_folder(P) one after the other, with no
\* other writer, return the same folder id, and the second call issues no
\* folder-creation request, whichever match the listing returns first.
\* Stated for the remote trees that are empty before the first call, where
\* no listing has two matches until the calls themselves create folders.
C1_TwiceSameIdNoCreate ==
    (AllDone /\ ~Overlapped /\ InitialDrive = <<>>) =>
        /\ result["c1"] = result["c2"]
        /\ RequestsOf(Second, "create_folder", "find_or_create_folder") = {}

\* C10: the folder find_or_create_folder returns is reached from parent_id
\* (the root when parent_id is omitted) by parent links named by the segments
\* of the path, in order.
C10_ChainFromParent ==
    \A c \in Callers :
        pc[c] = "done" => IsChain(result[c], folders, parent_id)

\* C7: on a path of distinct segment names whose folders do not exist yet,
\* calls that do not overlap create each folder once and return one id;
\* two same-named folders under one parent arise only from overlapping calls.
C7_SequentialCreatesOnce ==
    (Fresh /\ DistinctSegs /\ ~Overlapped) =>
        /\ ~Duplicates
        /\ NumCreated <= Len(folders)
        /\ AllDone => /\ NumCreated = Len(folders)
                      /\ result["c1"] = result["c2"]

\* C7 witness: overlapping calls, both lookups found nothing, both created,
\* and the tree holds two same-named folders under one parent.
C7_RaceReached ==
    /\ Fresh /\ DistinctSegs /\ Overlapped /\ AllDone
    /\ Duplicates
    /\ \A c \in Callers :
           RequestsOf(c, "create_folder", "find_or_create_folder") # {}

----------------------------------------------------------------------------
(* Claims about upload, under SpecUpload *)

\* the regular files and the subdirectories below src_path, at every depth
LocalFiles == {i \in DOMAIN src.entries : src.entries[i].kind = "file"}

LocalDirs == {i \in DOMAIN src.entries : src.entries[i].kind = "dir"}

\* C2: when src_path is neither a regular file nor a directory, ValueError is
\* raised before any remote request: nothing was looked up or created for
\* dst_path by the failing call.
C2_ValueErrorBeforeAnyRequest ==
    \A c \in Callers : err[c] = "ValueError" => RequestsBy(c) = {}

\* C6: an upload of a directory that returns has issued one file-creation
\* request per regular file and one folder-creation request per subdirectory
\* of the whole local tree, besides the requests that resolved dst_path; and
\* after two such uploads into one destination folder, every subdirectory of
\* src_path has two same-named folders under that destination.
C6_OneCreatePerEntry ==
    /\ \A c \in Callers :
           (pc[c] = "done" /\ src.kind = "dir") =>
               /\ Cardinality(RequestsOf(c, "create_file", "upload_folder"))
                      = Cardinality(LocalFiles)
               /\ Cardinality(RequestsOf(c, "create_folder", "upload_folder"))
                      = Cardinality(LocalDirs)
               /\ RequestsOf(c, "create_file", "upload") = {}
    /\ (AllDone /\ src.kind = "dir" /\ result["c1"] = result["c2"]) =>
           \A e \in LocalDirs :
               src.entries[e].parent = 0 =>
                   Cardinality(Select(drive,
                       Query(src.entries[e].name, result["c1"]))) >= 2

\* C6 witness: the same directory, holding a file and a subdirectory, was
\* uploaded twice into one destination folder.
C6_UploadedTwice ==
    /\ AllDone /\ src.kind = "dir" /\ result["c1"] = result["c2"]
    /\ LocalFiles # {}
    /\ \E e \in LocalDirs : src.entries[e].parent = 0

IsPrefix(s, t) == Len(s) <= Len(t) /\ SubSeq(t, 1, Len(s)) = s

\* the requests of upload_folder that failed
FailedInFolder(c) ==
    {i \in DOMAIN log :
        log[i].caller = c /\ log[i].by = "upload_folder" /\ ~log[i].ok}

\* after a failed request of upload_folder the call is over with that error,
\* and the failed request is the caller's last one
AbortedAtFailure ==
    \A c \in Callers :
        \A i \in FailedInFolder(c) :
            /\ pc[c] = "raised" /\ err[c] = "HttpError"
            /\ stack[c] = <<>>
            /\ \A j \in RequestsBy(c) : j <= i

\* C9: a request that fails inside upload_folder ends the upload with that
\* error: no further request for the remaining children, no retry; and no
\* step removes or changes a node of the remote tree (no rollback).
C9_FailureAbortsNoRollback ==
    /\ []AbortedAtFailure
    /\ [][IsPrefix(drive, drive')]_vars

\* C9 witness: a request of upload_folder failed after a subdirectory's folder
\* was created, with an entry of the local tree still to come.
C9_FailedPartway ==
    \E c \in Callers :
        /\ FailedInFolder(c) # {}
        /\ \E i \in RequestsOf(c, "create_folder", "upload_folder") : log[i].ok
        /\ Cardinality(RequestsOf(c, "create_file", "upload_folder")
                       \cup RequestsOf(c, "create_folder", "upload_folder"))
               < Cardinality(LocalFiles \cup LocalDirs)
        /\ Len(drive) > Len(InitialDrive)

----------------------------------------------------------------------------
(* Claims about credential acquisition, under SpecCreds and SpecConstruct *)

EventsOf(u, op) == {i \in DOMAIN events[u] : events[u][i].op = op}

RefreshFailed(u) == \E i \in DOMAIN events[u] : events[u][i] = Event("refresh", 0)

\* the token file held an expired credential with a refresh token that works
ExpiredRefreshable(u) ==
    IF token_at_start[u] = <<>> THEN FALSE
    ELSE /\ token_at_start[u][1].expired
         /\ token_at_start[u][1].refresh_token = "good"

\* C3 as stated: when the refresh call fails, the refresh error is not
\* propagated (the acquisition goes on to the interactive flow instead).
C3_RefreshFailureFallsBack ==
    \A u \in Uploaders : RefreshFailed(u) => aerr[u] # "RefreshError"

\* C3 amended: when the refresh call fails, the acquisition ends with the
\* refresh error: no interactive flow is started, the token file is not
\* written and no service handle is built.
C3_RefreshFailurePropagates ==
    \A u \in Uploaders :
        RefreshFailed(u) =>
            /\ apc[u] = "raised" /\ aerr[u] = "RefreshError"
            /\ EventsOf(u, "flow") = {} /\ EventsOf(u, "write") = {}
            /\ token_file[u] = token_at_start[u]
            /\ service[u] = <<>>

\* C3 witness: the refresh call has failed in both uploaders.
C3_RefreshHasFailed == \A u \in Uploaders : RefreshFailed(u)

\* C4: from a token file holding an expired credential with a valid refresh
\* token, the acquisition makes one refresh call, then one write of the
\* token file, and never starts the interactive flow.
C4_OneRefreshThenOneWrite ==
    \A u \in Uploaders :
        ExpiredRefreshable(u) =>
            /\ apc[u] # "raised"
            /\ events[u] \in {<<>>, <<Event("refresh", 1)>>,
                               <<Event("refresh", 1), Event("write", 0)>>}
            /\ apc[u] = "ready" =>
                   /\ events[u] = <<Event("refresh", 1), Event("write", 0)>>
                   /\ token_file[u] = creds[u]
                   /\ Valid(creds[u][1])

\* both uploaders went from such a token file to a service handle
C4_BothRefreshed ==
    \A u \in Uploaders : ExpiredRefreshable(u) /\ apc[u] = "ready"

----------------------------------------------------------------------------
(* Claims about construction, under SpecConstruct *)

\* what the code does: the acquisition a DriveUploader's constructor starts
\* never gets as far as a refresh, a flow, a write or a service handle
DriveNeverBuilt ==
    /\ apc["drive"] \in {"new", "start", "loaded", "raised"}
    /\ events["drive"] = <<>>
    /\ service["drive"] = <<>>
    /\ token_file["drive"] = token_at_start["drive"]

\* the constructor of the DriveUploader has ended with an AttributeError,
\* with a token file and without one
DriveRaisedWithToken ==
    /\ aerr["drive"] = "AttributeError" /\ token_file["drive"] # <<>>

DriveRaisedWithoutToken ==
    /\ aerr["drive"] = "AttributeError" /\ token_file["drive"] = <<>>
    /\ secrets_ok["drive"]

\* C11: once DriveUploader.__init__ has called get_drive_service, every
\* attribute the acquisition reads (token_file_path, client_secrets_file,
\* scopes) is assigned, and the construction never ends with an
\* AttributeError: it can only fail the way the acquisition itself fails.
C11_AcquiresOnInitialisedObject ==
    /\ apc["drive"] # "new" => ReadByAcquisition("drive") \subseteq assigned["drive"]
    /\ aerr["drive"] # "AttributeError"

----------------------------------------------------------------------------
(* Claims about upload_video, under SpecVideo *)

\* C8: the body carries the wire codes of the chosen category, privacy status
\* and license (ENTERTAINMENT is "24", PRIVATE is "private"), and the defaults
\* license "youtube", embeddable true, publicStatsViewable true,
\* selfDeclaredMadeForKids false and tags [] for the arguments left out.
C8_PayloadCarriesWireCodes ==
    video_pc \in {"inserting", "done"} =>
        LET a == video_args
            b == body[1]
        IN  /\ b.snippet.categoryId = YoutubeCategory[a.category]
            /\ b.status.privacyStatus = YoutubePrivacyStatus[a.privacy_status]
            /\ a.license # <<>> => b.status.license = YoutubeLicense[a.license[1]]
            /\ a.category = "ENTERTAINMENT" => b.snippet.categoryId = "24"
            /\ a.category = "MUSIC" => b.snippet.categoryId = "10"
            /\ a.privacy_status = "PRIVATE" => b.status.privacyStatus = "private"
            /\ a.privacy_status = "UNLISTED" => b.status.privacyStatus = "unlisted"
            /\ a.license = <<"CREATIVE_COMMON">> => b.status.license = "creativeCommon"
            /\ a.license = <<>> => b.status.license = "youtube"
            /\ a.embeddable = <<>> => b.status.embeddable = TRUE
            /\ a.public_stats_viewable = <<>> => b.status.publicStatsViewable = TRUE
            /\ a.made_for_kids = <<>> => b.status.selfDeclaredMadeForKids = FALSE
            /\ a.tags = <<>> => b.snippet.tags = <<>>
            /\ a.embeddable # <<>> => b.status.embeddable = a.embeddable[1]
            /\ a.made_for_kids # <<>> =>
                   b.status.selfDeclaredMadeForKids = a.made_for_kids[1]

\* C8 witness: an ENTERTAINMENT, PRIVATE video was sent with every optional
\* argument left out.
C8_DefaultsSent ==
    /\ video_pc = "done"
    /\ video_args.category = "ENTERTAINMENT"
    /\ video_args.privacy_status = "PRIVATE"
    /\ video_args.license = <<>> /\ video_args.tags = <<>>
    /\ video_args.embeddable = <<>> /\ video_args.made_for_kids = <<>>
    /\ video_args.public_stats_viewable = <<>>

====
